---- MODULE Spec2Model ----
(***************************************************************************)
(* Client / file management of erp-project-alt.                            *)
(*                                                                         *)
(* Backend: the nine handlers of server_erp/Controllers/fileController.js  *)
(* over the tables `clients` and `files` and the upload directory.  Every  *)
(* db.query is one atomic database statement.  A handler that awaits more  *)
(* than one statement (updateClient, deleteClient, deleteFile) is one      *)
(* action per statement, so that concurrent requests interleave between    *)
(* its statements; a handler with at most one statement is one action.     *)
(* What a handler answers is a pure operator (...Res) of the tables and    *)
(* the request; the action applies the statements and records the status   *)
(* it sent in `last`.  The tables carry no foreign key (the controller     *)
(* calls the file check of deleteClient "optional"), and the database      *)
(* statements themselves succeed: the only catch branch with a model is    *)
(* the one a synchronous throw of fs.unlink would reach.  The upload       *)
(* middleware stores each payload on disk under a fresh name before the    *)
(* handler runs, so every req.file that is present carries a path.         *)
(*                                                                         *)
(* Frontend: the EditClient view (loading / error / success state, the     *)
(* fetch effect, handleSubmit, handleDelete and the render guards).        *)
(***************************************************************************)
EXTENDS Integers, FiniteSets, Sequences, TLC

\* ----------------------------------------------------------------- bounds
MaxClients == 1      \* INSERTs into clients over a run
MaxFiles == 1        \* payloads written to disk, and INSERTs into files
MaxInFlight == 1     \* multi-statement requests in flight at once
MaxPending == 2      \* requests of one kind the view has in flight at once

\* ------------------------------------------------------------ value domains
Null == 0                         \* SQL NULL / JS undefined for ids and paths
Undefined == "<undefined>"        \* a body field that is absent

Users ==
  { [id |-> 1, role |-> "gmd"], [id |-> 2, role |-> "chairman"],
    [id |-> 3, role |-> "staff"], [id |-> 4, role |-> "staff"] }

NameInputs == {Undefined, "", "Acme", "Beta"}
CodeInputs == {Undefined, "", "AC1"}
FileNameInputs == {Undefined, "doc"}
CategoryInputs == {Undefined, "legal"}
ClientIds == 1..(MaxClients + 1)      \* one id past the last row: 404 cases
FileIds == 1..(MaxFiles + 1)
Paths == 1..MaxFiles                  \* file names the upload middleware generates
Slots == 1..MaxInFlight

VARIABLES
  clients,        \* table clients: set of rows [id, name, code]
  nextClientId,   \* AUTO_INCREMENT of clients
  files,          \* table files: set of rows
  nextFileId,     \* AUTO_INCREMENT of files
  fs,             \* paths present in the upload directory
  nextPath,       \* next file name the upload middleware generates
  unlinkPending,  \* fs.unlink calls issued and not yet completed, per path
  reqs,           \* multi-statement requests in flight, per slot
  last,           \* handler and status of the response sent by the last step
  solo,           \* the slot whose request no other request has interleaved with
  pre,            \* clients and files as they were when that request began
  fresh,          \* rows echoed by createClient, not updated, deleted or uploaded for since
  \* the EditClient view
  mounted,        \* the component is rendered on its route
  clientId,       \* useParams().clientId
  formData,       \* useState: name and code of the form
  loading,        \* useState, true at first
  error,          \* useState, '' when none
  success,        \* useState, '' when none
  fetches,        \* axios.get of fetchClient in flight
  updates,        \* axios.put of handleSubmit in flight
  deletes,        \* axios.delete of handleDelete in flight
  navTimer,       \* the setTimeout of handleSubmit is armed
  resetByFetch    \* a fetch settled while an update was in flight

server == <<clients, nextClientId, files, nextFileId, fs, nextPath, unlinkPending,
            reqs, last, solo, pre, fresh>>
view == <<mounted, clientId, formData, loading, error, success, fetches, updates,
          deletes, navTimer, resetByFetch>>
vars == <<server, view>>

Idle == [op |-> "idle"]
None == [op |-> "none", status |-> 0, solo |-> FALSE]
NoPre == [clients |-> {}, files |-> {}]
Tables == [clients |-> clients, files |-> files]

\* ---------------------------------------------------------- pure helpers
FalsyUndefinedOnly(v) == v = Undefined
\* !v of a body field
Falsy(v) == v = Undefined \/ v = ""

NonPrivileged(user) == user.role # "gmd" /\ user.role # "chairman"

\* SQL equality: NULL equals nothing
SqlEq(a, b) == a # Null /\ b # Null /\ a = b

NullFile == [id |-> Null, client_id |-> Null, name |-> "", category |-> "",
             path |-> Null, uploaded_by |-> Null]

\* clients c LEFT JOIN files f ON c.id = f.client_id
LeftJoin ==
  LET matched == {j \in [c : clients, f : files] : SqlEq(j.c.id, j.f.client_id)}
      unmatched == {c \in clients : ~\E f \in files : SqlEq(c.id, f.client_id)}
  IN matched \cup {[c |-> c, f |-> NullFile] : c \in unmatched}

\* SELECT c.*, COUNT(f.id) as file_count ... GROUP BY c.id
GroupByClient(joined) ==
  { [id |-> c.id, name |-> c.name, code |-> c.code,
     file_count |-> Cardinality({j \in joined : j.c = c /\ j.f.id # Null})] :
    c \in {j.c : j \in joined} }

WhereClauseOwnOnly(j, uid) == SqlEq(j.f.uploaded_by, uid)
\* WHERE f.uploaded_by = ? OR f.id IS NULL
WhereClause(j, uid) == SqlEq(j.f.uploaded_by, uid) \/ j.f.id = Null

SelectClientById(id) == {c \in clients : SqlEq(c.id, id)}

SelectFileById(id) == {f \in files : SqlEq(f.id, id)}

\* SELECT id FROM files WHERE client_id = ? LIMIT 1
SelectFilesOfClientLimit1(id) ==
  LET S == {f \in files : SqlEq(f.client_id, id)}
  IN IF S = {} THEN {} ELSE {CHOOSE f \in S : TRUE}

Res(status, data) == [status |-> status, data |-> data]

\* ------------------------------------------------------------ bookkeeping
AllIdle == \A s \in Slots : reqs[s] = Idle
FreeSlot(s) == reqs[s] = Idle /\ \A t \in Slots : t < s => reqs[t] # Idle
At(s, op, pc) == reqs[s] # Idle /\ reqs[s].op = op /\ reqs[s].pc = pc

\* a request that is answered in the step it arrives in
Complete(op, status) ==
  /\ last' = [op |-> op, status |-> status, solo |-> TRUE]
  /\ solo' = 0
  /\ pre' = NoPre
  /\ UNCHANGED <<reqs, view>>

\* first statement of a multi-statement handler; the request goes on in slot s
Begin(s, req) ==
  /\ reqs' = [reqs EXCEPT ![s] = req]
  /\ last' = None
  /\ solo' = IF AllIdle THEN s ELSE 0
  /\ pre' = IF AllIdle THEN Tables ELSE NoPre
  /\ UNCHANGED view

\* a later statement of slot s; the request goes on
Continue(s, req) ==
  /\ reqs' = [reqs EXCEPT ![s] = req]
  /\ last' = None
  /\ solo' = IF solo = s THEN s ELSE 0
  /\ pre' = IF solo = s THEN pre ELSE NoPre
  /\ UNCHANGED view

\* the statement of slot s after which the response is sent
Finish(s, op, status) ==
  /\ reqs' = [reqs EXCEPT ![s] = Idle]
  /\ last' = [op |-> op, status |-> status, solo |-> (solo = s)]
  /\ solo' = 0
  /\ pre' = NoPre
  /\ UNCHANGED view

Init ==
  /\ clients = {}
  /\ nextClientId = 1
  /\ files = {}
  /\ nextFileId = 1
  /\ fs = {}
  /\ nextPath = 1
  /\ unlinkPending = [p \in Paths |-> 0]
  /\ reqs = [s \in Slots |-> Idle]
  /\ last = None
  /\ solo = 0
  /\ pre = NoPre
  /\ fresh = {}
  \* EditClient after its first render and the first run of its effect
  /\ mounted = TRUE
  /\ clientId = 1
  /\ formData = [name |-> "", code |-> ""]
  /\ loading = TRUE
  /\ error = ""
  /\ success = ""
  /\ fetches = 1
  /\ updates = 0
  /\ deletes = 0
  /\ navTimer = FALSE
  /\ resetByFetch = FALSE

\* ------------------------------------------------------------ client handlers
getAllClientsRes(user) ==
  IF NonPrivileged(user)
    THEN Res(200, GroupByClient({j \in LeftJoin : WhereClause(j, user.id)}))
    ELSE Res(200, GroupByClient(LeftJoin))

getAllClients(user) ==
  /\ Complete("getAllClients", getAllClientsRes(user).status)
  /\ UNCHANGED <<clients, nextClientId, files, nextFileId, fs, nextPath,
                 unlinkPending, fresh>>

getClientByIdRes(id) ==
  LET client == SelectClientById(id)
  IN IF client = {} THEN Res(404, {}) ELSE Res(200, client)

getClientById(id) ==
  /\ Complete("getClientById", getClientByIdRes(id).status)
  /\ UNCHANGED <<clients, nextClientId, files, nextFileId, fs, nextPath,
                 unlinkPending, fresh>>

\* !name || !code
BodyInvalid(name, code) == Falsy(name) \/ Falsy(code)

createClientRes(name, code) ==
  IF BodyInvalid(name, code)
    THEN Res(400, {})
    ELSE Res(201, {[id |-> nextClientId, name |-> name, code |-> code]})

createClientSwapped(name, code) ==
  LET res == createClientRes(name, code)
  IN /\ IF res.status = 400
          THEN UNCHANGED <<clients, nextClientId, fresh>>
          ELSE /\ nextClientId <= MaxClients
               /\ clients' = clients \cup
                    {[id |-> nextClientId, name |-> code, code |-> name]}
               /\ nextClientId' = nextClientId + 1
               /\ fresh' = fresh \cup res.data
     /\ Complete("createClient", res.status)
     /\ UNCHANGED <<files, nextFileId, fs, nextPath, unlinkPending>>

\* INSERT INTO clients (name, code) VALUES (?, ?)
createClient(name, code) ==
  LET res == createClientRes(name, code)
  IN /\ IF res.status = 400
          THEN UNCHANGED <<clients, nextClientId, fresh>>
          ELSE /\ nextClientId <= MaxClients
               /\ clients' = clients \cup
                    {[id |-> nextClientId, name |-> name, code |-> code]}
               /\ nextClientId' = nextClientId + 1
               /\ fresh' = fresh \cup res.data
     /\ Complete("createClient", res.status)
     /\ UNCHANGED <<files, nextFileId, fs, nextPath, unlinkPending>>

\* what updateClient answers before its UPDATE: 400, 404 or 0 (it goes on)
updateClientEarly(id, name, code) ==
  IF BodyInvalid(name, code) THEN 400
  ELSE IF SelectClientById(id) = {} THEN 404
  ELSE 0

\* validation and SELECT * FROM clients WHERE id = ?
updateClientSelect(s, id, name, code) ==
  /\ FreeSlot(s)
  /\ LET early == updateClientEarly(id, name, code)
     IN IF early # 0
          THEN Complete("updateClient", early)
          ELSE Begin(s, [op |-> "updateClient", pc |-> "update", id |-> id,
                         name |-> name, code |-> code])
  /\ UNCHANGED <<clients, nextClientId, files, nextFileId, fs, nextPath,
                 unlinkPending, fresh>>

\* UPDATE clients SET name = ?, code = ? WHERE id = ?
updateClientUpdate(s) ==
  /\ At(s, "updateClient", "update")
  /\ clients' = {IF SqlEq(c.id, reqs[s].id)
                   THEN [c EXCEPT !.name = reqs[s].name, !.code = reqs[s].code]
                   ELSE c : c \in clients}
  /\ fresh' = {r \in fresh : r.id # reqs[s].id}
  /\ Finish(s, "updateClient", 200)
  /\ UNCHANGED <<nextClientId, files, nextFileId, fs, nextPath, unlinkPending>>

\* SELECT * FROM clients WHERE id = ?
deleteClientSelect(s, id) ==
  /\ FreeSlot(s)
  /\ IF SelectClientById(id) = {}
       THEN Complete("deleteClient", 404)
       ELSE Begin(s, [op |-> "deleteClient", pc |-> "files", id |-> id])
  /\ UNCHANGED <<clients, nextClientId, files, nextFileId, fs, nextPath,
                 unlinkPending, fresh>>

ClientHasFilesUnchecked(id) == FALSE
\* files.length > 0
ClientHasFiles(id) == Cardinality(SelectFilesOfClientLimit1(id)) > 0

\* SELECT id FROM files WHERE client_id = ? LIMIT 1
deleteClientCheckFiles(s) ==
  /\ At(s, "deleteClient", "files")
  /\ IF ClientHasFiles(reqs[s].id)
       THEN Finish(s, "deleteClient", 400)
       ELSE Continue(s, [reqs[s] EXCEPT !.pc = "delete"])
  /\ UNCHANGED <<clients, nextClientId, files, nextFileId, fs, nextPath,
                 unlinkPending, fresh>>

\* DELETE FROM clients WHERE id = ?
deleteClientDelete(s) ==
  /\ At(s, "deleteClient", "delete")
  /\ clients' = {c \in clients : ~SqlEq(c.id, reqs[s].id)}
  /\ fresh' = {r \in fresh : r.id # reqs[s].id}
  /\ Finish(s, "deleteClient", 200)
  /\ UNCHANGED <<nextClientId, files, nextFileId, fs, nextPath, unlinkPending>>

\* -------------------------------------------------------------- file handlers
getAllFilesResUnfiltered(user, client_id) ==
  Res(200, {f \in files : SqlEq(f.client_id, client_id)})
getAllFilesRes(user, client_id) ==
  Res(200, {f \in files :
              /\ SqlEq(f.client_id, client_id)
              /\ (NonPrivileged(user) => SqlEq(f.uploaded_by, user.id))})

getAllFiles(user, client_id) ==
  /\ Complete("getAllFiles", getAllFilesRes(user, client_id).status)
  /\ UNCHANGED <<clients, nextClientId, files, nextFileId, fs, nextPath,
                 unlinkPending, fresh>>

ForbiddenOwnerBlocked(user, file) ==
  NonPrivileged(user) /\ file.uploaded_by = user.id
\* role is neither gmd nor chairman, and files[0].uploaded_by !== req.user.id
Forbidden(user, file) == NonPrivileged(user) /\ file.uploaded_by # user.id

getFileByIdRes(user, id) ==
  LET found == SelectFileById(id)
  IN IF found = {} THEN Res(404, {})
     ELSE LET file == CHOOSE f \in found : TRUE
          IN IF Forbidden(user, file) THEN Res(403, {}) ELSE Res(200, {file})

getFileById(user, id) ==
  /\ Complete("getFileById", getFileByIdRes(user, id).status)
  /\ UNCHANGED <<clients, nextClientId, files, nextFileId, fs, nextPath,
                 unlinkPending, fresh>>

\* req.file as the upload middleware leaves it: absent, or written to disk
\* under a fresh name
NoFile == [present |-> FALSE, path |-> Null]
DiskFile == [present |-> TRUE, path |-> nextPath]

FieldsInvalidCategoryOptional(client_id, name, category) ==
  client_id = Null \/ Falsy(name)
\* !client_id || !name || !category
FieldsInvalid(client_id, name, category) ==
  client_id = Null \/ Falsy(name) \/ Falsy(category)

uploadFileRes(file, client_id, name, category) ==
  IF ~file.present THEN Res(400, {})
  ELSE IF FieldsInvalid(client_id, name, category) THEN Res(400, {})
  ELSE Res(201, {[id |-> nextFileId, name |-> name, category |-> category,
                  path |-> file.path]})

uploadFile(user, file, client_id, name, category) ==
  LET res == uploadFileRes(file, client_id, name, category)
  IN \* the middleware has stored the payload before the handler runs
     /\ file.path # Null => nextPath <= MaxFiles
     /\ fs' = IF file.path # Null THEN fs \cup {file.path} ELSE fs
     /\ nextPath' = IF file.path # Null THEN nextPath + 1 ELSE nextPath
     /\ IF res.status = 400
          THEN UNCHANGED <<files, nextFileId, fresh>>
          ELSE /\ nextFileId <= MaxFiles
               /\ files' = files \cup
                    {[id |-> nextFileId, client_id |-> client_id, name |-> name,
                      category |-> category, path |-> file.path,
                      uploaded_by |-> user.id]}
               /\ nextFileId' = nextFileId + 1
               /\ fresh' = {r \in fresh : r.id # client_id}
     /\ Complete("uploadFile", res.status)
     /\ UNCHANGED <<clients, nextClientId, unlinkPending>>

\* fs.unlink(path, callback) validates path before it queues the operation:
\* a path that is no string throws synchronously
UnlinkThrows(path) == path = Null

\* what deleteFile answers before its DELETE: 404, 403, 500 or 0 (it goes on)
deleteFileEarly(user, id) ==
  LET found == SelectFileById(id)
  IN IF found = {} THEN 404
     ELSE LET file == CHOOSE f \in found : TRUE
          IN IF Forbidden(user, file) THEN 403
             ELSE IF UnlinkThrows(file.path) THEN 500
             ELSE 0

\* SELECT * FROM files WHERE id = ?, the permission check and the fs.unlink call
deleteFileSelect(s, user, id) ==
  /\ FreeSlot(s)
  /\ LET early == deleteFileEarly(user, id)
     IN IF early # 0
          THEN /\ Complete("deleteFile", early)
               /\ UNCHANGED unlinkPending
          ELSE LET file == CHOOSE f \in SelectFileById(id) : TRUE
               IN /\ unlinkPending' = [unlinkPending EXCEPT ![file.path] = @ + 1]
                  /\ Begin(s, [op |-> "deleteFile", pc |-> "delete", id |-> id,
                               path |-> file.path])
  /\ UNCHANGED <<clients, nextClientId, files, nextFileId, fs, nextPath, fresh>>

deleteFileDeleteUnlinkFatal(s) ==
  /\ At(s, "deleteFile", "delete")
  /\ unlinkPending[reqs[s].path] = 0
  /\ IF reqs[s].path \in fs
       THEN UNCHANGED files /\ Finish(s, "deleteFile", 500)
       ELSE /\ files' = {f \in files : ~SqlEq(f.id, reqs[s].id)}
            /\ Finish(s, "deleteFile", 200)
  /\ UNCHANGED <<clients, nextClientId, nextFileId, fs, nextPath, unlinkPending,
                 fresh>>

\* DELETE FROM files WHERE id = ?
deleteFileDelete(s) ==
  /\ At(s, "deleteFile", "delete")
  /\ files' = {f \in files : ~SqlEq(f.id, reqs[s].id)}
  /\ Finish(s, "deleteFile", 200)
  /\ UNCHANGED <<clients, nextClientId, nextFileId, fs, nextPath, unlinkPending,
                 fresh>>

\* the unlink completes and its callback runs: the entry is removed, or err is
\* set and the callback logs it
unlinkCallback(path, err) ==
  /\ unlinkPending[path] > 0
  /\ path \notin fs => err
  /\ unlinkPending' = [unlinkPending EXCEPT ![path] = @ - 1]
  /\ fs' = IF err THEN fs ELSE fs \ {path}
  /\ last' = None
  /\ UNCHANGED <<clients, nextClientId, files, nextFileId, nextPath, reqs,
                 solo, pre, fresh, view>>

\* ------------------------------------------------------------ specifications
ClientRequests ==
  \/ \E id \in ClientIds : getClientById(id)
  \/ \E n \in NameInputs, c \in CodeInputs : createClient(n, c)
  \/ \E s \in Slots, id \in ClientIds, n \in NameInputs, c \in CodeInputs :
        updateClientSelect(s, id, n, c)
  \/ \E s \in Slots : updateClientUpdate(s)
  \/ \E s \in Slots, id \in ClientIds : deleteClientSelect(s, id)
  \/ \E s \in Slots : deleteClientCheckFiles(s)
  \/ \E s \in Slots : deleteClientDelete(s)

FileRequests ==
  \/ \E u \in Users, cid \in ClientIds \cup {Null} : getAllFiles(u, cid)
  \/ \E u \in Users, id \in FileIds : getFileById(u, id)
  \/ \E u \in Users, f \in {NoFile, DiskFile},
        cid \in (1..MaxClients) \cup {Null},
        n \in FileNameInputs, c \in CategoryInputs : uploadFile(u, f, cid, n, c)
  \/ \E s \in Slots, u \in Users, id \in FileIds : deleteFileSelect(s, u, id)
  \/ \E s \in Slots : deleteFileDelete(s)
  \/ \E p \in Paths, err \in BOOLEAN : unlinkCallback(p, err)

Next ==
  \/ \E u \in Users : getAllClients(u)
  \/ ClientRequests
  \/ FileRequests

Spec == Init /\ [][Next]_vars

\* uploads that pass validation, by the callers U
ValidUploads(U) ==
  \E u \in U, cid \in 1..MaxClients : uploadFile(u, DiskFile, cid, "doc", "legal")

FileDeletes ==
  \/ \E s \in Slots, u \in Users, id \in FileIds : deleteFileSelect(s, u, id)
  \/ \E s \in Slots : deleteFileDelete(s)
  \/ \E p \in Paths, err \in BOOLEAN : unlinkCallback(p, err)

\* the client handlers, with uploads for the clients
NextClients ==
  \/ ClientRequests
  \/ ValidUploads({[id |-> 3, role |-> "staff"]})

SpecClients == Init /\ [][NextClients]_vars

\* the client list over every combination of clients, files and uploaders
NextList ==
  \/ \E u \in Users : getAllClients(u)
  \/ \E id \in ClientIds : getClientById(id)
  \/ \E n \in NameInputs, c \in CodeInputs : createClient(n, c)
  \/ \E u \in Users, f \in {NoFile, DiskFile}, cid \in (1..MaxClients) \cup {Null},
        n \in FileNameInputs, c \in CategoryInputs : uploadFile(u, f, cid, n, c)

SpecList == Init /\ [][NextList]_vars

\* the file handlers, for every caller and every combination of payload and
\* body fields
NextFiles == FileRequests

SpecFiles == Init /\ [][NextFiles]_vars

\* ---------------------------------------------------------- EditClient view
RouteIds == {1, 2}
FieldValues == {"", "Acme", "Beta"}
FetchedRecords == {[name |-> "Acme", code |-> "AC1"], [name |-> "Beta", code |-> "AC1"]}

\* if (loading) return ...; if (error) return ...; otherwise the form is drawn
FormShown == mounted /\ ~loading /\ error = ""

\* <button type="submit" disabled={loading}>
SubmitEnabled == FormShown /\ ~loading

\* the route changes to another client: the effect runs again and fetches
routeChange(id) ==
  /\ mounted /\ id # clientId
  /\ fetches < MaxPending
  /\ clientId' = id
  /\ fetches' = fetches + 1
  /\ UNCHANGED <<mounted, formData, loading, error, success, updates, deletes,
                 navTimer, resetByFetch, server>>

\* fetchClient after its await: try / catch / finally
fetchSettled(ok, data) ==
  /\ fetches > 0
  /\ fetches' = fetches - 1
  /\ IF mounted
       THEN /\ formData' = IF ok THEN data ELSE formData
            /\ error' = IF ok THEN error ELSE "Failed to fetch client"
            /\ loading' = FALSE
            /\ resetByFetch' = (resetByFetch \/ updates > 0)
       ELSE UNCHANGED <<formData, error, loading, resetByFetch>>
  /\ UNCHANGED <<mounted, clientId, success, updates, deletes, navTimer, server>>

handleChange(field, value) ==
  /\ FormShown
  /\ formData' = [formData EXCEPT ![field] = value]
  /\ UNCHANGED <<mounted, clientId, loading, error, success, fetches, updates,
                 deletes, navTimer, resetByFetch, server>>

\* both inputs are `required`: the browser submits the form only when filled
handleSubmit ==
  /\ SubmitEnabled
  /\ formData.name # "" /\ formData.code # ""
  /\ updates < MaxPending
  /\ loading' = TRUE
  /\ error' = ""
  /\ success' = ""
  /\ updates' = updates + 1
  /\ UNCHANGED <<mounted, clientId, formData, fetches, deletes, navTimer,
                 resetByFetch, server>>

submitSettledNoFinally(ok) ==
  /\ updates > 0
  /\ updates' = updates - 1
  /\ resetByFetch' = (resetByFetch /\ updates > 1)
  /\ IF mounted
       THEN /\ success' = IF ok THEN "Client updated successfully!" ELSE success
            /\ navTimer' = (navTimer \/ ok)
            /\ error' = IF ok THEN error ELSE "Failed to update client"
            /\ loading' = IF ok THEN FALSE ELSE loading
       ELSE UNCHANGED <<success, navTimer, error, loading>>
  /\ UNCHANGED <<mounted, clientId, formData, fetches, deletes, server>>

\* handleSubmit after its await: try / catch / finally
submitSettled(ok) ==
  /\ updates > 0
  /\ updates' = updates - 1
  /\ resetByFetch' = (resetByFetch /\ updates > 1)
  /\ IF mounted
       THEN /\ success' = IF ok THEN "Client updated successfully!" ELSE success
            /\ navTimer' = (navTimer \/ ok)
            /\ error' = IF ok THEN error ELSE "Failed to update client"
            /\ loading' = FALSE
       ELSE UNCHANGED <<success, navTimer, error, loading>>
  /\ UNCHANGED <<mounted, clientId, formData, fetches, deletes, server>>

\* setTimeout(() => navigate('/files'), 1500)
navTimerFires ==
  /\ navTimer
  /\ navTimer' = FALSE
  /\ mounted' = FALSE
  /\ UNCHANGED <<clientId, formData, loading, error, success, fetches, updates,
                 deletes, resetByFetch, server>>

\* the close and Cancel buttons: navigate('/files')
cancel ==
  /\ FormShown
  /\ mounted' = FALSE
  /\ UNCHANGED <<clientId, formData, loading, error, success, fetches, updates,
                 deletes, navTimer, resetByFetch, server>>

\* the Delete button, window.confirm answered yes
handleDelete ==
  /\ FormShown
  /\ deletes < MaxPending
  /\ deletes' = deletes + 1
  /\ UNCHANGED <<mounted, clientId, formData, loading, error, success, fetches,
                 updates, navTimer, resetByFetch, server>>

\* handleDelete after its await: navigate('/files'), or setError
deleteSettled(ok) ==
  /\ deletes > 0
  /\ deletes' = deletes - 1
  /\ mounted' = (mounted /\ ~ok)
  /\ error' = IF mounted /\ ~ok THEN "Failed to delete client" ELSE error
  /\ UNCHANGED <<clientId, formData, loading, success, fetches, updates,
                 navTimer, resetByFetch, server>>

NextView ==
  \/ \E ok \in BOOLEAN, data \in FetchedRecords : fetchSettled(ok, data)
  \/ handleDelete
  \/ \E ok \in BOOLEAN : deleteSettled(ok)
  \/ handleSubmit
  \/ \E ok \in BOOLEAN : submitSettled(ok)
  \/ \E field \in {"name", "code"}, value \in FieldValues : handleChange(field, value)
  \/ navTimerFires
  \/ cancel
  \/ \E id \in RouteIds : routeChange(id)

\* every request the view has issued settles: with a response or with an error
SpecView ==
  /\ Init /\ [][NextView]_vars
  /\ WF_vars(\E ok \in BOOLEAN, data \in FetchedRecords : fetchSettled(ok, data))
  /\ WF_vars(\E ok \in BOOLEAN : submitSettled(ok))
  /\ WF_vars(\E ok \in BOOLEAN : deleteSettled(ok))

\* ===================================================================== claims
PrivilegedRoles == {"gmd", "chairman"}
Referenced(id, rows) == \E f \in rows : f.client_id = id
Missing(v) == v \in {Undefined, ""}

\* C1: a deleteClient on an existing client that no other request interleaves
\* with removes the row and answers 200 exactly when no file row has that
\* client_id; when a file row references the client it answers 400 and leaves
\* clients and files as they were when it began.
C1_DeleteClientAlone ==
  [][\A s \in Slots :
       (solo = s /\ reqs[s] # Idle /\ reqs[s].op = "deleteClient" /\ reqs'[s] = Idle) =>
         LET id == reqs[s].id
             removed == clients' = {c \in pre.clients : c.id # id} /\ files' = pre.files
             kept == clients' = pre.clients /\ files' = pre.files
         IN /\ \E c \in pre.clients : c.id = id
            /\ (last'.status = 200 /\ removed) <=> ~Referenced(id, pre.files)
            /\ Referenced(id, pre.files) => last'.status = 400 /\ kept]_vars

C1_Witness ==
  /\ last = [op |-> "deleteClient", status |-> 400, solo |-> TRUE]
  /\ \E c \in clients : Referenced(c.id, files)

\* C2: under every interleaving of the statements of concurrent requests, the
\* DELETE of a client row is never executed in a state where a file row with
\* that client_id exists.
C2_NoDeleteWhileReferenced ==
  [][\A s \in Slots : deleteClientDelete(s) => ~Referenced(reqs[s].id, files)]_vars

\* C3: for an existing file and a caller who is neither gmd nor chairman nor
\* the uploader, getFileById and deleteFile answer 403 without data, and
\* deleteFile leaves the row and the disk alone: no unlink is issued and no
\* DELETE will be.
C3_Stranger(u, f) == u.role \notin PrivilegedRoles /\ u.id # f.uploaded_by

C3_StrangerRefused ==
  /\ [](\A u \in Users, f \in files :
          C3_Stranger(u, f) =>
            /\ getFileByIdRes(u, f.id) = Res(403, {})
            /\ deleteFileEarly(u, f.id) = 403)
  /\ [][\A s \in Slots, u \in Users, f \in files :
          (C3_Stranger(u, f) /\ deleteFileSelect(s, u, f.id)) =>
            /\ last'.op = "deleteFile" /\ last'.status = 403
            /\ UNCHANGED <<files, fs, unlinkPending, reqs>>]_vars

C3_Witness ==
  /\ last.op = "deleteFile" /\ last.status = 403
  /\ \E f \in files : f.path \in fs /\ unlinkPending[f.path] = 0

\* C4: getAllClients returns to a caller who is not gmd or chairman exactly the
\* clients without any file row plus the clients with a file row uploaded by
\* the caller, and to gmd and chairman every client row.
C4_Visible(u) ==
  IF u.role \in PrivilegedRoles
    THEN clients
    ELSE {c \in clients :
            \/ ~Referenced(c.id, files)
            \/ \E f \in files : f.client_id = c.id /\ f.uploaded_by = u.id}

C5_Expected(u, cid) ==
  {f \in files : f.client_id = cid /\ (u.role \in PrivilegedRoles \/ f.uploaded_by = u.id)}

C5_FileList ==
  /\ [](\A u \in Users, cid \in ClientIds \cup {Null} :
          getAllFilesRes(u, cid) = Res(200, C5_Expected(u, cid)))
  /\ [][\A a \in Users, cid \in 1..MaxClients :
          (uploadFile(a, DiskFile, cid, "doc", "legal") /\ a.role \notin PrivilegedRoles) =>
            \E row \in files' \ files :
              /\ row.uploaded_by = a.id
              /\ row \in getAllFilesRes(a, cid).data'
              /\ \A b \in Users :
                   (b.role \notin PrivilegedRoles /\ b.id # a.id) =>
                     row \notin getAllFilesRes(b, cid).data']_vars

C5_Witness ==
  /\ last.op = "getAllFiles"
  /\ \E f \in files, b \in Users :
       /\ b.role \notin PrivilegedRoles /\ b.id # f.uploaded_by
       /\ f \notin getAllFilesRes(b, f.client_id).data

C7_ClientValidation ==
  /\ [](\A n \in NameInputs, c \in CodeInputs :
          (Missing(n) \/ Missing(c)) =>
            /\ createClientRes(n, c) = Res(400, {})
            /\ \A id \in ClientIds : updateClientEarly(id, n, c) = 400)
  /\ [][\/ last'.op \notin {"createClient", "updateClient"}
        \/ last'.status = 400 /\ UNCHANGED <<clients, nextClientId, reqs>>
        \/ \A n \in NameInputs, c \in CodeInputs :
             (Missing(n) \/ Missing(c)) =>
               /\ ~createClient(n, c)
               /\ \A s \in Slots, id \in ClientIds :
                    ~updateClientSelect(s, id, n, c)]_vars

C7_Witness ==
  /\ last.op = "updateClient" /\ last.status = 400
  /\ clients # {}

\* C8: uploadFile without client_id, name or category answers 400 and inserts
\* no row even when the payload was received; without a payload it answers 400
\* and inserts no row. In the action part, a step is either no uploadFile
\* answer, or a 400 that inserts nothing, or a step that no such request can
\* take.
C8_Rejected(f, cid, n, c) == ~f.present \/ cid = Null \/ Missing(n) \/ Missing(c)

C8_UploadValidation ==
  /\ [](\A f \in {NoFile, DiskFile}, cid \in (1..MaxClients) \cup {Null},
           n \in FileNameInputs, c \in CategoryInputs :
          C8_Rejected(f, cid, n, c) => uploadFileRes(f, cid, n, c) = Res(400, {}))
  /\ [][\/ last'.op # "uploadFile"
        \/ last'.status = 400 /\ UNCHANGED <<files, nextFileId>>
        \/ \A u \in Users, f \in {NoFile, DiskFile},
              cid \in (1..MaxClients) \cup {Null},
              n \in FileNameInputs, c \in CategoryInputs :
             C8_Rejected(f, cid, n, c) => ~uploadFile(u, f, cid, n, c)]_vars

\* 400 was sent for a request whose payload had been stored
C8_Witness ==
  /\ last.op = "uploadFile" /\ last.status = 400
  /\ nextPath > nextFileId

\* C9 as stated: getClientById of a client createClient returned, not updated,
\* deleted or uploaded for since, returns the same name and code plus
\* file_count = 0.
C9_RoundTripWithFileCount ==
  \A r \in fresh :
    getClientByIdRes(r.id) =
      Res(200, {[id |-> r.id, name |-> r.name, code |-> r.code, file_count |-> 0]})

\* C9 as amended: it returns the id, name and code createClient returned, and
\* no file_count.
C9_RoundTrip ==
  \A r \in fresh : getClientByIdRes(r.id) = Res(200, {r})

C9_Witness ==
  /\ last.op = "getClientById" /\ last.status = 200
  /\ fresh # {}

====
